---- MODULE Spec2Model ----
(***************************************************************************)
(* A model of the DNS resolving server of src/src/main.rs: the 512-byte    *)
(* wire cursor (BufHandler), the codec (DnsHeader, DnsQuestion, DnsRecord, *)
(* DnsPacket), the upstream exchange (lookup) and the server loop (main).  *)
(*                                                                         *)
(* Representation.  A byte is a number in 0..255.  The array [u8; 512] is  *)
(* a sequence b of at most 512 bytes standing for b followed by zeros.     *)
(* A String is the sequence of its bytes (ASCII only in this model).  A    *)
(* Result<T, String> is a record with st = "Ok" or "Err"; st = "Panic" is  *)
(* a Rust panic (index out of range, unwrap of an Err) and st = "Hang" a   *)
(* loop that never exits.                                                  *)
(***************************************************************************)
EXTENDS Integers, Sequences, FiniteSets, TLC

\* ------------------------------------------------------------------ bits

RECURSIVE BitAnd(_, _)
BitAnd(a, b) ==
  IF a = 0 \/ b = 0 THEN 0
  ELSE (a % 2) * (b % 2) + 2 * BitAnd(a \div 2, b \div 2)

RECURSIVE BitOr(_, _)
BitOr(a, b) ==
  IF a = 0 THEN b
  ELSE IF b = 0 THEN a
  ELSE (IF a % 2 = 1 \/ b % 2 = 1 THEN 1 ELSE 0) + 2 * BitOr(a \div 2, b \div 2)

RECURSIVE BitXor(_, _)
BitXor(a, b) ==
  IF a = 0 THEN b
  ELSE IF b = 0 THEN a
  ELSE (IF a % 2 = b % 2 THEN 0 ELSE 1) + 2 * BitXor(a \div 2, b \div 2)

\* x << n and x >> n on a u8 / u16 (bits shifted out are lost)
Shl8(x, n) == (x * 2^n) % 256
Shl16(x, n) == (x * 2^n) % 65536
Shr(x, n) == x \div 2^n

\* `as u8`, `as u16` truncation
AsU8(x) == x % 256
AsU16(x) == x % 65536

BoolAsU8(b) == IF b THEN 1 ELSE 0

\* ------------------------------------------------------------- enums

OpCode_to_num(op) ==
  CASE op = "QUERY" -> 0 [] op = "IQUERY" -> 1 [] op = "STATUS" -> 2

OpCode_from_num(num) ==
  CASE num = 1 -> "IQUERY" [] num = 2 -> "STATUS" [] OTHER -> "QUERY"

ResponseCode_to_num(rc) ==
  CASE rc = "NOERR" -> 0 [] rc = "FORMERR" -> 1 [] rc = "SERVFAIL" -> 2
    [] rc = "NAMERR" -> 3 [] rc = "NOTIMP" -> 4 [] rc = "REFUSED" -> 5

ResponseCode_from_num(num) ==
  CASE num = 1 -> "FORMERR" [] num = 2 -> "SERVFAIL" [] num = 3 -> "NAMERR"
    [] num = 4 -> "NOTIMP" [] num = 5 -> "REFUSED" [] OTHER -> "NOERR"

QueryType_from_num(num) ==
  CASE num = 1 -> "A" [] num = 2 -> "NS" [] num = 5 -> "CNAME"
    [] num = 15 -> "MX" [] num = 28 -> "AAAA" [] OTHER -> "UNKNOWN"

QueryType_to_num(qt) ==
  CASE qt = "A" -> 1 [] qt = "NS" -> 2 [] qt = "CNAME" -> 5
    [] qt = "MX" -> 15 [] qt = "AAAA" -> 28 [] qt = "UNKNOWN" -> 0

\* ------------------------------------------------------------ BufHandler

BufSize == 512

\* buf[i] for 0 <= i < 512
Get(buf, i) == IF i < Len(buf) THEN buf[i + 1] ELSE 0

\* buf[i] = v for 0 <= i < 512
Set(buf, i, v) ==
  IF i < Len(buf) THEN [buf EXCEPT ![i + 1] = v]
  ELSE buf \o [k \in 1..(i - Len(buf)) |-> 0] \o <<v>>

BufHandler_new == [buf |-> <<>>, pos |-> 0]

Ok(h, v) == [st |-> "Ok", h |-> h, val |-> v]
Err(h) == [st |-> "Err", h |-> h, val |-> 0]
Panic(h) == [st |-> "Panic", h |-> h, val |-> 0]
Hang(h) == [st |-> "Hang", h |-> h, val |-> 0]

\* The `?` of Rust: when r is not Ok the function returns r at once, else it
\* goes on with K(r)
Try(r, K(_)) == IF r.st # "Ok" THEN r ELSE K(r)

BufHandler_read(h) ==
  IF h.pos >= BufSize THEN Err(h)
  ELSE Ok([h EXCEPT !.pos = h.pos + 1], Get(h.buf, h.pos))

BufHandler_read_u16(h) ==
  Try(BufHandler_read(h), LAMBDA r1 :
  Try(BufHandler_read(r1.h), LAMBDA r2 :
  Ok(r2.h, BitOr(Shl16(r1.val, 8), r2.val))))

BufHandler_read_u32(h) ==
  Try(BufHandler_read_u16(h), LAMBDA r1 :
  Try(BufHandler_read_u16(r1.h), LAMBDA r2 :
  Ok(r2.h, BitOr(r1.val * 65536, r2.val))))

BufHandler_get_pos(h) == h.pos

BufHandler_seek(h, pos) == [h EXCEPT !.pos = pos]

BufHandler_write(h, data) ==
  IF h.pos >= BufSize THEN Err(h)
  ELSE Ok([buf |-> Set(h.buf, h.pos, data), pos |-> h.pos + 1], 0)

BufHandler_write_u16(h, data) ==
  Try(BufHandler_write(h, AsU8(Shr(data, 8))), LAMBDA r1 :
  BufHandler_write(r1.h, AsU8(data)))

BufHandler_write_u32(h, data) ==
  Try(BufHandler_write_u16(h, AsU16(Shr(data, 16))), LAMBDA r1 :
  BufHandler_write_u16(r1.h, AsU16(data)))

\* --------------------------------------------------------------- names

Dot == 46

\* String::from_utf8_lossy(label).to_lowercase(), byte by byte.  A byte
\* below 128 is an ASCII character, lower-cased when it is in 'A'..'Z'.  A
\* byte of 128 or more is replaced by U+FFFD (EF BF BD): exact for bytes that
\* begin no valid UTF-8 sequence, which is every such byte of this model's
\* buffers (none holds a continuation byte 0x80..0xBF after a lead byte).
RECURSIVE LossyLower(_)
LossyLower(label) ==
  IF label = <<>> THEN <<>>
  ELSE LET c == Head(label) IN
       (IF c >= 128 THEN <<239, 191, 189>>
        ELSE IF c >= 65 /\ c <= 90 THEN <<c + 32>>
        ELSE <<c>>) \o LossyLower(Tail(label))

\* &buf[from..to]: the bytes at from, ..., to - 1
Slice(buf, from, to) == [k \in 1..(to - from) |-> Get(buf, from + k - 1)]

\* The state of read_qname's loop: the cursor, the output string, whether
\* delim is "." (it is "" before the first label), jumped and offset; done
\* is "no" while the loop runs, else how it ended.
QnameStart(h, out) ==
  [h |-> h, out |-> out, delim |-> FALSE, jumped |-> FALSE, offset |-> h.pos,
   done |-> "no"]

\* Forgetting to clear the two marker bits of a pointer's first byte
QnamePointerTarget_Unmasked(len, b2) == BitOr(Shl16(len, 8), b2)

QnamePointerTarget(len, b2) == BitOr(Shl16(BitXor(len, 192), 8), b2)

\* if !jumped { self.pos = offset + n }; the first is a cursor that is set
\* at every pointer and at the end of the name, jumped or not
QnameResume_Always(s, n) == s.offset + n

QnameResume(s, n) == IF s.jumped THEN s.h.pos ELSE s.offset + n

\* An iteration of read_qname's loop after `let len = self.buf[offset]`
QnameBranch(s, len) ==
  IF len = 0 THEN
    [s EXCEPT !.h.pos = QnameResume(s, 1),
              !.done = "Ok"]
  ELSE IF BitAnd(len, 192) = 192 THEN
    IF s.offset + 1 >= BufSize THEN [s EXCEPT !.done = "Panic"]
    ELSE
    LET b2 == Get(s.h.buf, s.offset + 1)
        pointer == QnamePointerTarget(len, b2)
    IN [s EXCEPT !.h.pos = QnameResume(s, 2),
                 !.offset = pointer,
                 !.jumped = TRUE]
  ELSE
    LET start == s.offset + 1 IN
    IF start + len > BufSize THEN [s EXCEPT !.offset = start, !.done = "Panic"]
    ELSE
    LET label == Slice(s.h.buf, start, start + len) IN
    [s EXCEPT !.out = s.out \o (IF s.delim THEN <<Dot>> ELSE <<>>)
                            \o LossyLower(label),
              !.delim = TRUE,
              !.offset = start + len]

\* One iteration of read_qname's loop.
QnameStep(s) ==
  IF s.offset >= BufSize THEN [s EXCEPT !.done = "Panic"]
  ELSE QnameBranch(s, Get(s.h.buf, s.offset))

\* The loop run to its end.  A run that exits visits no offset twice (the
\* next offset depends on the buffer and the offset alone), so it exits
\* within 512 iterations; one that has not is in a cycle and never exits.
RECURSIVE QnameLoop(_, _)
QnameLoop(s, fuel) ==
  IF s.done # "no" THEN s
  ELSE IF fuel = 0 THEN [s EXCEPT !.done = "Hang"]
  ELSE QnameLoop(QnameStep(s), fuel - 1)

\* read_qname(&mut self, out): val is the output string
QnameResult(s) == [st |-> s.done, h |-> s.h, val |-> s.out]

BufHandler_read_qname(h, out) ==
  QnameResult(QnameLoop(QnameStart(h, out), BufSize + 1))

\* qname.split("."): the labels between the dots ("" gives one empty label)
RECURSIVE SplitAcc(_, _)
SplitAcc(qname, cur) ==
  IF qname = <<>> THEN <<cur>>
  ELSE IF Head(qname) = Dot THEN <<cur>> \o SplitAcc(Tail(qname), <<>>)
  ELSE SplitAcc(Tail(qname), Append(cur, Head(qname)))

Split(qname) == SplitAcc(qname, <<>>)

RECURSIVE WriteBytes(_, _)
WriteBytes(h, bytes) ==
  IF bytes = <<>> THEN Ok(h, 0)
  ELSE Try(BufHandler_write(h, Head(bytes)), LAMBDA r :
       WriteBytes(r.h, Tail(bytes)))

\* for split in qname.split(".") { write(split.len() as u8)?; bytes }
RECURSIVE WriteLabels(_, _)
WriteLabels(h, labels) ==
  IF labels = <<>> THEN Ok(h, 0)
  ELSE Try(BufHandler_write(h, AsU8(Len(Head(labels)))), LAMBDA r1 :
       Try(WriteBytes(r1.h, Head(labels)), LAMBDA r2 :
       WriteLabels(r2.h, Tail(labels))))

BufHandler_write_qname(h, qname) ==
  Try(WriteLabels(h, Split(qname)), LAMBDA r : BufHandler_write(r.h, 0))

\* --------------------------------------------------------------- header

DnsHeader_new ==
  [id |-> 0, query |-> FALSE, opcode |-> "QUERY", authoritative_answer |-> FALSE,
   truncation |-> FALSE, recursion_desired |-> FALSE,
   recursion_available |-> FALSE, z |-> 0, response_code |-> "NOERR",
   questions |-> 0, answers |-> 0, nameservers |-> 0, additionals |-> 0]

\* self.z = (b >> 4) & 0xF
HeaderZ(b) == BitAnd(Shr(b, 4), 15)

\* DnsHeader::read: val is the header read
DnsHeader_read(self, h) ==
  Try(BufHandler_read_u16(h), LAMBDA r1 :
  Try(BufHandler_read_u16(r1.h), LAMBDA r2 :
  Try(BufHandler_read_u16(r2.h), LAMBDA r3 :
  Try(BufHandler_read_u16(r3.h), LAMBDA r4 :
  Try(BufHandler_read_u16(r4.h), LAMBDA r5 :
  Try(BufHandler_read_u16(r5.h), LAMBDA r6 :
  Ok(r6.h,
     [id |-> r1.val,
      query |-> BitAnd(Shr(AsU8(Shr(r2.val, 8)), 7), 1) = 1,
      opcode |-> OpCode_from_num(BitAnd(Shr(AsU8(Shr(r2.val, 8)), 3), 15)),
      authoritative_answer |-> BitAnd(Shr(AsU8(Shr(r2.val, 8)), 2), 1) = 1,
      truncation |-> BitAnd(Shr(AsU8(Shr(r2.val, 8)), 1), 1) = 1,
      recursion_desired |-> BitAnd(AsU8(Shr(r2.val, 8)), 1) = 1,
      recursion_available |-> BitAnd(Shr(AsU8(BitAnd(r2.val, 255)), 7), 1) = 1,
      z |-> HeaderZ(AsU8(BitAnd(r2.val, 255))),
      response_code |-> ResponseCode_from_num(BitAnd(AsU8(BitAnd(r2.val, 255)), 15)),
      questions |-> r3.val,
      answers |-> r4.val,
      nameservers |-> r5.val,
      additionals |-> r6.val])))))))

HeaderByte2(self) ==
  BitOr(BitOr(BitOr(BitOr(Shl8(BoolAsU8(self.query), 7),
                          Shl8(OpCode_to_num(self.opcode), 3)),
                    Shl8(BoolAsU8(self.authoritative_answer), 2)),
              Shl8(BoolAsU8(self.truncation), 1)),
        BoolAsU8(self.recursion_desired))

HeaderByte3(self) ==
  BitOr(BitOr(Shl8(BoolAsU8(self.recursion_available), 7), Shl8(self.z, 4)),
        ResponseCode_to_num(self.response_code))

DnsHeader_write(self, h) ==
  Try(BufHandler_write_u16(h, self.id), LAMBDA r1 :
  Try(BufHandler_write(r1.h, HeaderByte2(self)), LAMBDA r2 :
  Try(BufHandler_write(r2.h, HeaderByte3(self)), LAMBDA r3 :
  Try(BufHandler_write_u16(r3.h, self.questions), LAMBDA r4 :
  Try(BufHandler_write_u16(r4.h, self.answers), LAMBDA r5 :
  Try(BufHandler_write_u16(r5.h, self.nameservers), LAMBDA r6 :
  BufHandler_write_u16(r6.h, self.additionals)))))))

\* ------------------------------------------------------------- question

DnsQuestion_new == [name |-> <<>>, qtype |-> "A"]

DnsQuestion_read(self, h) ==
  Try(BufHandler_read_qname(h, self.name), LAMBDA r1 :
  Try(BufHandler_read_u16(r1.h), LAMBDA r2 :
  Try(BufHandler_read_u16(r2.h), LAMBDA r3 :
  Ok(r3.h, [name |-> r1.val, qtype |-> QueryType_from_num(r2.val)]))))

DnsQuestion_write(self, h) ==
  Try(BufHandler_write_qname(h, self.name), LAMBDA r1 :
  Try(BufHandler_write_u16(r1.h, QueryType_to_num(self.qtype)), LAMBDA r2 :
  BufHandler_write_u16(r2.h, 1)))

\* --------------------------------------------------------------- record

\* n successive buf_handler.read()?: val is the bytes read
RECURSIVE ReadOctets(_, _, _)
ReadOctets(h, n, acc) ==
  IF n = 0 THEN Ok(h, acc)
  ELSE Try(BufHandler_read(h), LAMBDA r :
       ReadOctets(r.h, n - 1, Append(acc, r.val)))

\* n successive buf_handler.read_u16()?: val is the numbers read
RECURSIVE ReadSegments(_, _, _)
ReadSegments(h, n, acc) ==
  IF n = 0 THEN Ok(h, acc)
  ELSE Try(BufHandler_read_u16(h), LAMBDA r :
       ReadSegments(r.h, n - 1, Append(acc, r.val)))

\* What DnsRecord::read does with the cursor after the record's fixed
\* fields when the type is none of A, NS, CNAME, MX, AAAA: nothing (_len is
\* read and never used).
SkipUnknown(h, len) == h

\* match qtype { ... } of DnsRecord::read
RecordData(qtype, qname, ttl, len, h) ==
  CASE qtype = "A" ->
        Try(ReadOctets(h, 4, <<>>), LAMBDA r :
        Ok(r.h, [kind |-> "A", domain |-> qname, addr |-> r.val, ttl |-> ttl]))
    [] qtype \in {"NS", "CNAME"} ->
        Try(BufHandler_read_qname(h, <<>>), LAMBDA r :
        Ok(r.h, [kind |-> qtype, domain |-> qname, ttl |-> ttl, host |-> r.val]))
    [] qtype = "MX" ->
        Try(BufHandler_read_u16(h), LAMBDA r1 :
        Try(BufHandler_read_qname(r1.h, <<>>), LAMBDA r2 :
        Ok(r2.h, [kind |-> "MX", domain |-> qname, ttl |-> ttl,
                  priority |-> r1.val, host |-> r2.val])))
    [] qtype = "AAAA" ->
        Try(ReadSegments(h, 8, <<>>), LAMBDA r :
        Ok(r.h, [kind |-> "AAAA", domain |-> qname, ttl |-> ttl, addr |-> r.val]))
    [] OTHER ->
        Ok(SkipUnknown(h, len),
           [kind |-> "UNKNOWN", domain |-> qname,
            qtype |-> QueryType_to_num(qtype)])

DnsRecord_read(h) ==
  Try(BufHandler_read_qname(h, <<>>), LAMBDA r1 :
  Try(BufHandler_read_u16(r1.h), LAMBDA r2 :
  Try(BufHandler_read_u16(r2.h), LAMBDA r3 :
  Try(BufHandler_read_u32(r3.h), LAMBDA r4 :
  Try(BufHandler_read_u16(r4.h), LAMBDA r5 :
  RecordData(QueryType_from_num(r2.val), r1.val, r4.val, r5.val, r5.h))))))

\* The fields every record starts with: name, type, class 1, ttl
WriteRecordHead(h, domain, qtype, ttl) ==
  Try(BufHandler_write_qname(h, domain), LAMBDA r1 :
  Try(BufHandler_write_u16(r1.h, QueryType_to_num(qtype)), LAMBDA r2 :
  Try(BufHandler_write_u16(r2.h, 1), LAMBDA r3 :
  BufHandler_write_u32(r3.h, ttl))))

RECURSIVE WriteSegments(_, _)
WriteSegments(h, segs) ==
  IF segs = <<>> THEN Ok(h, 0)
  ELSE Try(BufHandler_write_u16(h, Head(segs)), LAMBDA r :
       WriteSegments(r.h, Tail(segs)))

\* What DnsRecord::write emits for the UNKNOWN variant: nothing (`_ => {}`)
WriteUnknown(self, h) == Ok(h, 0)

\* The record-data length DnsRecord::write puts before a host name; the
\* first is a length that leaves out the name's terminating byte
HostLength_Unterminated(host, extra) == AsU16(Len(host) + extra - 1)

HostLength(host, extra) == AsU16(Len(host) + extra)

\* What follows the ttl, by variant
WriteRecordData(self, h) ==
  CASE self.kind = "A" ->
        Try(BufHandler_write_u16(h, 4), LAMBDA r : WriteBytes(r.h, self.addr))
    [] self.kind = "AAAA" ->
        Try(BufHandler_write_u16(h, 16), LAMBDA r : WriteSegments(r.h, self.addr))
    [] self.kind \in {"NS", "CNAME"} ->
        Try(BufHandler_write_u16(h, HostLength(self.host, 2)), LAMBDA r :
        BufHandler_write_qname(r.h, self.host))
    [] self.kind = "MX" ->
        Try(BufHandler_write_u16(h, HostLength(self.host, 4)), LAMBDA r1 :
        Try(BufHandler_write_u16(r1.h, self.priority), LAMBDA r2 :
        BufHandler_write_qname(r2.h, self.host)))

DnsRecord_write(self, h) ==
  IF self.kind = "UNKNOWN" THEN WriteUnknown(self, h)
  ELSE Try(WriteRecordHead(h, self.domain, self.kind, self.ttl), LAMBDA r :
       WriteRecordData(self, r.h))

\* --------------------------------------------------------------- packet

DnsPacket_new ==
  [header |-> DnsHeader_new, questions |-> <<>>, answers |-> <<>>,
   nameservers |-> <<>>, additionals |-> <<>>]

\* for _ in 0..n { let mut q = DnsQuestion::new(); q.read(buf)?; push }
RECURSIVE ReadQuestions(_, _, _)
ReadQuestions(h, n, acc) ==
  IF n = 0 THEN Ok(h, acc)
  ELSE Try(DnsQuestion_read(DnsQuestion_new, h), LAMBDA r :
       ReadQuestions(r.h, n - 1, Append(acc, r.val)))

\* for _ in 0..n { push(DnsRecord::read(buf)?) }
RECURSIVE ReadRecords(_, _, _)
ReadRecords(h, n, acc) ==
  IF n = 0 THEN Ok(h, acc)
  ELSE Try(DnsRecord_read(h), LAMBDA r :
       ReadRecords(r.h, n - 1, Append(acc, r.val)))

\* DnsPacket::read: val is the packet read
DnsPacket_read(self, h) ==
  Try(DnsHeader_read(self.header, h), LAMBDA r1 :
  Try(ReadQuestions(r1.h, r1.val.questions, self.questions), LAMBDA r2 :
  Try(ReadRecords(r2.h, r1.val.answers, self.answers), LAMBDA r3 :
  Try(ReadRecords(r3.h, r1.val.nameservers, self.nameservers), LAMBDA r4 :
  Try(ReadRecords(r4.h, r1.val.additionals, self.additionals), LAMBDA r5 :
  Ok(r5.h, [header |-> r1.val, questions |-> r2.val, answers |-> r3.val,
            nameservers |-> r4.val, additionals |-> r5.val]))))))

DnsPacket_from_buffer(h) == DnsPacket_read(DnsPacket_new, h)

RECURSIVE WriteQuestions(_, _)
WriteQuestions(h, qs) ==
  IF qs = <<>> THEN Ok(h, 0)
  ELSE Try(DnsQuestion_write(Head(qs), h), LAMBDA r :
       WriteQuestions(r.h, Tail(qs)))

RECURSIVE WriteRecords(_, _)
WriteRecords(h, rs) ==
  IF rs = <<>> THEN Ok(h, 0)
  ELSE Try(DnsRecord_write(Head(rs), h), LAMBDA r :
       WriteRecords(r.h, Tail(rs)))

\* The header DnsPacket::write encodes: the counts set from the vectors
PacketCounts(self) ==
  [self.header EXCEPT !.questions = AsU16(Len(self.questions)),
                      !.answers = AsU16(Len(self.answers)),
                      !.nameservers = AsU16(Len(self.nameservers)),
                      !.additionals = AsU16(Len(self.additionals))]

\* DnsPacket::write; the packet afterwards is self with PacketCounts(self)
\* as its header
DnsPacket_write(self, h) ==
  Try(DnsHeader_write(PacketCounts(self), h), LAMBDA r1 :
  Try(WriteQuestions(r1.h, self.questions), LAMBDA r2 :
  Try(WriteRecords(r2.h, self.answers), LAMBDA r3 :
  Try(WriteRecords(r3.h, self.nameservers), LAMBDA r4 :
  WriteRecords(r4.h, self.additionals)))))

\* ---------------------------------------------------------------- state

VARIABLES
  pc,               \* where the program under check stands
  buf_handler,      \* the BufHandler in use (in main: the one it creates once)
  input,            \* the input of a codec or cursor run, fixed by Init
  output,           \* the last result of a codec or cursor run
  qn,               \* read_qname's loop state while it runs step by step
  len,              \* read_qname's `len` between its fetch and its use
  last_start,       \* the cursor position before the last DnsRecord::read
  src,              \* main: the sender of the datagram being served
  request_packet,   \* main: the decoded request, after questions.pop()
  response_packet,  \* main: the response being built
  packet,           \* main: the result of the last lookup
  question,         \* main: the question popped from the request
  current_address,  \* main: the nameserver to ask next
  chain,            \* the datagrams the upstream servers answer with, in order
  cyclic,           \* whether the upstream servers start the chain over
  served,           \* how many datagrams of the chain have been received
  queries,          \* upstream queries sent for this request (up to QueryCap)
  last_query,       \* the last datagram sent upstream and its destination
  sent,             \* the last datagram sent to a client and its destination
  fault,            \* why the process has aborted, if it has
  datagram,         \* main: the bytes the last recv_from on port 6969 returned
  prev_query,       \* the datagram sent upstream before last_query
  sends             \* datagrams sent to the client since the last recv_from

codec_vars == <<input, output, qn, len, last_start>>

server_vars ==
  <<src, request_packet, response_packet, packet, question, current_address,
    chain, cyclic, served, queries, last_query, sent, fault, datagram,
    prev_query, sends>>

vars == <<pc, buf_handler, codec_vars, server_vars>>

RootHint == <<202, 12, 27, 33>>
NoAddress == <<0, 0, 0, 0>>
NoDatagram == [to |-> NoAddress, bytes |-> <<>>]

\* main's locals at the top of its loop, before a datagram is received
LoopTop ==
  /\ src = NoAddress
  /\ request_packet = DnsPacket_new
  /\ response_packet = DnsPacket_new
  /\ packet = DnsPacket_new
  /\ question = DnsQuestion_new
  /\ current_address = RootHint
  /\ chain = <<>>
  /\ cyclic = FALSE
  /\ served = 0
  /\ queries = 0
  /\ last_query = NoDatagram
  /\ sent = NoDatagram
  /\ fault = "none"
  /\ datagram = <<>>
  /\ prev_query = NoDatagram
  /\ sends = 0

NoOutput == [st |-> "none"]
NoQname == QnameStart(BufHandler_new, <<>>)

\* ------------------------------------------------- header: write, read

HeaderIds == {0, 6699}
OpCodes == {"QUERY", "IQUERY", "STATUS"}
ResponseCodes == {"NOERR", "FORMERR", "SERVFAIL", "NAMERR", "NOTIMP", "REFUSED"}
HeaderCounts == {<<0, 0, 0, 0>>, <<1, 2, 3, 65535>>}

Headers ==
  { [id |-> i, query |-> f[1], opcode |-> op, authoritative_answer |-> f[2],
     truncation |-> f[3], recursion_desired |-> f[4],
     recursion_available |-> f[5], z |-> zz, response_code |-> rc,
     questions |-> c[1], answers |-> c[2], nameservers |-> c[3],
     additionals |-> c[4]] :
    i \in HeaderIds, f \in [1..5 -> BOOLEAN], op \in OpCodes, zz \in 0..7,
    rc \in ResponseCodes, c \in HeaderCounts }

InitHeader ==
  /\ pc = "header_start"
  /\ input \in Headers
  /\ buf_handler = BufHandler_new
  /\ output = NoOutput
  /\ qn = NoQname
  /\ len = 0
  /\ last_start = 0
  /\ LoopTop

\* header.write(&mut buf_handler) into a fresh buffer
HeaderWrite ==
  /\ pc = "header_start"
  /\ LET r == DnsHeader_write(input, buf_handler) IN
     /\ buf_handler' = r.h
     /\ output' = [st |-> r.st]
     /\ pc' = "header_written"
  /\ UNCHANGED <<input, qn, len, last_start>>
  /\ UNCHANGED server_vars

\* seek(0); DnsHeader::new().read(&mut buf_handler) of the bytes written
HeaderRead ==
  /\ pc = "header_written"
  /\ output.st = "Ok"
  /\ LET r == DnsHeader_read(DnsHeader_new, BufHandler_seek(buf_handler, 0)) IN
     /\ buf_handler' = r.h
     /\ output' = [st |-> r.st, val |-> r.val]
     /\ pc' = "header_read"
  /\ UNCHANGED <<input, qn, len, last_start>>
  /\ UNCHANGED server_vars

NextHeader == HeaderWrite \/ HeaderRead

SpecHeader == InitHeader /\ [][NextHeader]_vars

\* C2: for every combination of header fields (opcode in the three
\* operation codes, z in 0..7, response code in the six codes), writing the
\* header and reading the same 12 bytes back gives a header with the same
\* value in every field.
C2_HeaderRoundTrip ==
  pc = "header_read" =>
    /\ output.st = "Ok"
    /\ buf_handler.pos = 12
    /\ output.val = input

\* ------------------------------------------- cursor: one operation a run

\* The bytes a buffer's first FrontLen places are drawn from: the end of a
\* name, label lengths 1 and 2 (also pointer targets), 'A' and the pointer
\* byte 0xC0.
CursorBytes == {0, 1, 2, 65, 192}
FrontLen == 5
FrontBuffers(n) == [1..n -> CursorBytes]

\* Buffers that are zero but for their last two bytes
TailBytes == {0, 1, 192}
TailBuffers == { [k \in 1..(BufSize - 2) |-> 0] \o t : t \in [1..2 -> TailBytes] }
TailPositions == (BufSize - 3)..BufSize

\* read_qname's output is cut at this length (a run that exits reads each
\* byte of the buffer once and stays below it)
MaxOut == 96

FixedOps == {"read", "read_u16", "read_u32", "write", "write_u16", "write_u32"}
WriteData == {0, 305419896}
QnameArgs == {<<>>, <<97>>, <<98, 46, 99>>, <<97, 46>>}

\* The runs of the cursor's operations: read_qname on the buffers of n bytes
\* and on the tail buffers, the other operations on the tail buffers
Repeat(b, n) == [k \in 1..n |-> b]

\* Names with a label of 63 and of 64 bytes
LongNames == { Repeat(97, 63), Repeat(97, 64) \o <<Dot, 98>> }

CursorInputs(n) ==
  { [op |-> "read_qname", buf |-> b, pos |-> p, arg |-> <<>>, data |-> 0] :
      b \in FrontBuffers(n), p \in 0..(n - 1) }
  \cup
  { [op |-> "read_qname", buf |-> b, pos |-> p, arg |-> <<>>, data |-> 0] :
      b \in TailBuffers, p \in TailPositions }
  \cup
  { [op |-> o, buf |-> b, pos |-> p, arg |-> <<>>, data |-> d] :
      o \in FixedOps, b \in TailBuffers, p \in TailPositions, d \in WriteData }
  \cup
  { [op |-> "write_qname", buf |-> b, pos |-> p, arg |-> q, data |-> 0] :
      b \in TailBuffers, p \in TailPositions, q \in QnameArgs }
  \cup
  { [op |-> "write_qname", buf |-> <<>>, pos |-> 0, arg |-> q, data |-> 0] :
      q \in QnameArgs \cup LongNames }

InitCursor ==
  /\ pc = "cursor_start"
  /\ input \in CursorInputs(FrontLen)
  /\ buf_handler = [buf |-> input.buf, pos |-> input.pos]
  /\ output = NoOutput
  /\ qn = NoQname
  /\ len = 0
  /\ last_start = 0
  /\ LoopTop

ApplyOp(op, h, arg, data) ==
  CASE op = "read" -> BufHandler_read(h)
    [] op = "read_u16" -> BufHandler_read_u16(h)
    [] op = "read_u32" -> BufHandler_read_u32(h)
    [] op = "write" -> BufHandler_write(h, AsU8(data))
    [] op = "write_u16" -> BufHandler_write_u16(h, AsU16(data))
    [] op = "write_u32" -> BufHandler_write_u32(h, data)
    [] op = "write_qname" -> BufHandler_write_qname(h, arg)

\* One call of read, read_u16, read_u32, write, write_u16, write_u32 or
\* write_qname
CursorOp ==
  /\ pc = "cursor_start"
  /\ input.op # "read_qname"
  /\ LET r == ApplyOp(input.op, buf_handler, input.arg, input.data) IN
     /\ buf_handler' = r.h
     /\ output' = [st |-> r.st, val |-> r.val]
     /\ pc' = "cursor_done"
  /\ UNCHANGED <<input, qn, len, last_start>>
  /\ UNCHANGED server_vars

\* read_qname is entered: delim, jumped and offset are set
QnameEnter ==
  /\ pc = "cursor_start"
  /\ input.op = "read_qname"
  /\ qn' = QnameStart(buf_handler, <<>>)
  /\ pc' = "qname_loop"
  /\ UNCHANGED <<buf_handler, input, output, len, last_start>>
  /\ UNCHANGED server_vars

\* let len = self.buf[offset]  (a panic when offset is 512 or more)
QnameFetch ==
  /\ pc = "qname_loop"
  /\ Len(qn.out) <= MaxOut
  /\ IF qn.offset >= BufSize
     THEN /\ pc' = "cursor_done"
          /\ output' = [st |-> "Panic", val |-> qn.out]
          /\ len' = len
     ELSE /\ pc' = "qname_body"
          /\ output' = output
          /\ len' = Get(qn.h.buf, qn.offset)
  /\ UNCHANGED <<buf_handler, input, qn, last_start>>
  /\ UNCHANGED server_vars

\* the rest of the iteration: end of name, pointer or label
QnameBody ==
  /\ pc = "qname_body"
  /\ LET s == QnameBranch(qn, len) IN
     /\ qn' = s
     /\ IF s.done = "no"
        THEN /\ pc' = "qname_loop"
             /\ UNCHANGED <<buf_handler, output>>
        ELSE /\ pc' = "cursor_done"
             /\ buf_handler' = s.h
             /\ output' = [st |-> s.done, val |-> s.out]
  /\ UNCHANGED <<input, len, last_start>>
  /\ UNCHANGED server_vars

NextCursor == CursorOp \/ QnameEnter \/ QnameFetch \/ QnameBody

SpecCursor == InitCursor /\ [][NextCursor]_vars

\* read_qname alone, started at the head of the buffer; its loop takes its
\* next step whenever it has one (the program is sequential).
InitQname == InitCursor /\ input.op = "read_qname" /\ input.pos = 0

NextQname == QnameEnter \/ QnameFetch \/ QnameBody

FairSpecQname == InitQname /\ [][NextQname]_vars /\ WF_vars(NextQname)

\* C3: read_qname started at a 2-byte compression pointer ends as read_qname
\* started at the pointer's target does, with the same output string.
C3_IsPointer(buf, p) == p + 1 < BufSize /\ Get(buf, p) >= 192

C3_Target(buf, p) == (Get(buf, p) - 192) * 256 + Get(buf, p + 1)

C3_PointerSameAsDirect ==
  (pc = "cursor_done" /\ input.op = "read_qname"
     /\ C3_IsPointer(input.buf, input.pos)) =>
    LET direct == BufHandler_read_qname(
                    [buf |-> input.buf, pos |-> C3_Target(input.buf, input.pos)],
                    <<>>)
    IN /\ direct.st = output.st
       /\ direct.val = output.val

\* a name of one label read through a pointer at a later place
C3_Witness ==
  /\ pc = "cursor_done"
  /\ input.op = "read_qname"
  /\ C3_IsPointer(input.buf, input.pos)
  /\ C3_Target(input.buf, input.pos) < input.pos
  /\ output.st = "Ok"
  /\ output.val = <<97>>

\* C4: on a buffer whose pointers form a cycle (a pointer that targets
\* itself included) read_qname ends, and ends with an error.
RECURSIVE C4_ChainCycles(_, _, _)
C4_ChainCycles(buf, o, seen) ==
  IF ~C3_IsPointer(buf, o) THEN FALSE
  ELSE IF o \in seen THEN TRUE
  ELSE C4_ChainCycles(buf, C3_Target(buf, o), seen \cup {o})

C4_CycleEndsWithError ==
  (input.op = "read_qname" /\ C4_ChainCycles(input.buf, input.pos, {}))
    ~> (pc = "cursor_done" /\ output.st = "Err")

\* C7: no cursor operation aborts the process, and one that would touch a
\* byte at index 512 or beyond returns the end-of-buffer error.
C7_Need(op) ==
  CASE op \in {"read", "write"} -> 1
    [] op \in {"read_u16", "write_u16"} -> 2
    [] op \in {"read_u32", "write_u32"} -> 4

C7_PastEndIsAnError ==
  pc = "cursor_done" =>
    /\ output.st \in {"Ok", "Err"}
    /\ (input.op \in FixedOps /\ input.pos + C7_Need(input.op) > BufSize)
         => output.st = "Err"

\* ----------------------------------------- codec: encode, then decode

NameA == <<97>>
NameBC == <<98, 46, 99>>
NameRoot == <<>>

RecordPool ==
  { [kind |-> "A", domain |-> NameA, addr |-> <<1, 2, 3, 4>>, ttl |-> 60],
    [kind |-> "A", domain |-> NameBC, addr |-> <<192, 168, 0, 255>>,
     ttl |-> 305419896],
    [kind |-> "AAAA", domain |-> NameA, ttl |-> 3600,
     addr |-> <<8193, 3512, 0, 0, 0, 0, 0, 1>>],
    [kind |-> "NS", domain |-> NameBC, ttl |-> 300, host |-> NameA],
    [kind |-> "NS", domain |-> NameRoot, ttl |-> 1, host |-> NameA],
    [kind |-> "CNAME", domain |-> NameA, ttl |-> 5, host |-> NameBC],
    [kind |-> "MX", domain |-> NameBC, ttl |-> 7, priority |-> 10,
     host |-> NameA],
    [kind |-> "UNKNOWN", domain |-> NameA, qtype |-> 0] }

QuestionPool ==
  { [name |-> NameA, qtype |-> "A"], [name |-> NameBC, qtype |-> "MX"] }

MaxQuestions == 1
MaxRecs == 2

SeqsUpTo(S, n) == UNION { [1..k -> S] : k \in 0..n }

CodecHeaders ==
  { DnsHeader_new,
    [DnsHeader_new EXCEPT !.id = 6699, !.query = TRUE,
                          !.authoritative_answer = TRUE,
                          !.recursion_desired = TRUE,
                          !.recursion_available = TRUE],
    [DnsHeader_new EXCEPT !.id = 6699, !.opcode = "STATUS", !.truncation = TRUE,
                          !.z = 5, !.response_code = "REFUSED"] }

\* The section counts a packet is built with: those of its vectors, or stale
WithCounts(p, stale) ==
  [p EXCEPT !.header.questions = IF stale THEN 7 ELSE Len(p.questions),
            !.header.answers = IF stale THEN 7 ELSE Len(p.answers),
            !.header.nameservers = IF stale THEN 7 ELSE Len(p.nameservers),
            !.header.additionals = IF stale THEN 7 ELSE Len(p.additionals)]

\* The ways to cut a sequence of n records into three sections
Cuts(n) == { c \in (0..n) \X (0..n) : c[1] <= c[2] }

MessagesOf(rs) ==
  { WithCounts([header |-> hd, questions |-> qs,
                answers |-> SubSeq(rs, 1, c[1]),
                nameservers |-> SubSeq(rs, c[1] + 1, c[2]),
                additionals |-> SubSeq(rs, c[2] + 1, Len(rs))], stale) :
    hd \in CodecHeaders, qs \in SeqsUpTo(QuestionPool, MaxQuestions),
    c \in Cuts(Len(rs)), stale \in BOOLEAN }

Messages(n) == UNION { MessagesOf(rs) : rs \in SeqsUpTo(RecordPool, n) }

\* A record of a type the decoder does not know, as it stands on the wire:
\* name, type, class 1, ttl, data length, data
UnknownTypes == {16, 99}
UnknownData == {<<>>, <<7>>, <<3, 65, 66, 67>>}

WriteWireRecord(h, domain, type, ttl, data) ==
  LET r1 == BufHandler_write_qname(h, domain)
      r2 == BufHandler_write_u16(r1.h, type)
      r3 == BufHandler_write_u16(r2.h, 1)
      r4 == BufHandler_write_u32(r3.h, ttl)
      r5 == BufHandler_write_u16(r4.h, Len(data))
  IN WriteBytes(r5.h, data)

ARecords == { r \in RecordPool : r.kind = "A" }

\* Three records in a row: an A record, a record of an unknown type, an A
\* record; ends are the places where each record ends
RecordInputs ==
  { LET h1 == DnsRecord_write(a1, BufHandler_new).h
        h2 == WriteWireRecord(h1, NameBC, t, 9, d).h
        h3 == DnsRecord_write(a2, h2).h
    IN [kind |-> "records", bytes |-> h3.buf, first |-> a1, second |-> a2,
        ends |-> <<h1.pos, h2.pos, h3.pos>>] :
    a1 \in ARecords, a2 \in ARecords, t \in UnknownTypes, d \in UnknownData }

\* Records to write one at a time: every variant with a data length, with
\* the empty name and a name with a trailing dot among the names
WrittenNames == {NameRoot, NameA, <<97, Dot>>, NameBC}

WrittenRecords ==
  { [kind |-> k, domain |-> d, ttl |-> 300, host |-> w] :
      k \in {"NS", "CNAME"}, d \in WrittenNames, w \in WrittenNames }
  \cup
  { [kind |-> "MX", domain |-> d, ttl |-> 300, priority |-> 10, host |-> w] :
      d \in WrittenNames, w \in WrittenNames }
  \cup
  { [kind |-> "A", domain |-> d, addr |-> <<1, 2, 3, 4>>, ttl |-> 60] :
      d \in WrittenNames }
  \cup
  { [kind |-> "AAAA", domain |-> d, ttl |-> 3600,
     addr |-> <<8193, 3512, 0, 0, 0, 0, 0, 1>>] : d \in WrittenNames }

WrittenAt == {0, BufSize - 16}

WriteInputs ==
  { [kind |-> "record", record |-> r, pos |-> p] :
      r \in WrittenRecords, p \in WrittenAt }

CodecInputs(n) ==
  { [kind |-> "packet", packet |-> m] : m \in Messages(n) }
    \cup RecordInputs

InitCodec ==
  /\ pc = "codec_start"
  /\ input \in CodecInputs(MaxRecs)
  /\ buf_handler = BufHandler_new
  /\ output = NoOutput
  /\ qn = NoQname
  /\ len = 0
  /\ last_start = 0
  /\ LoopTop

\* packet.write(&mut buf_handler) into a fresh buffer
PacketWrite ==
  /\ pc = "codec_start"
  /\ input.kind = "packet"
  /\ LET r == DnsPacket_write(input.packet, buf_handler) IN
     /\ buf_handler' = r.h
     /\ output' = [st |-> r.st]
     /\ pc' = "encoded"
  /\ UNCHANGED <<input, qn, len, last_start>>
  /\ UNCHANGED server_vars

\* seek(0); DnsPacket::from_buffer(&mut buf_handler)
PacketRead ==
  /\ pc = "encoded"
  /\ output.st = "Ok"
  /\ LET r == DnsPacket_from_buffer(BufHandler_seek(buf_handler, 0)) IN
     /\ buf_handler' = r.h
     /\ output' = [st |-> r.st, val |-> r.val]
     /\ pc' = "decoded"
  /\ UNCHANGED <<input, qn, len, last_start>>
  /\ UNCHANGED server_vars

\* recv_from(&mut buf_handler.buf) on a fresh BufHandler
DatagramRecv ==
  /\ pc = "codec_start"
  /\ input.kind = "records"
  /\ buf_handler' = [buf |-> input.bytes, pos |-> 0]
  /\ output' = [st |-> "Ok", recs |-> <<>>]
  /\ pc' = "records"
  /\ UNCHANGED <<input, qn, len, last_start>>
  /\ UNCHANGED server_vars

\* DnsRecord::read(&mut buf_handler), once
RecordRead ==
  /\ pc = "records"
  /\ Len(output.recs) < 3
  /\ LET r == DnsRecord_read(buf_handler) IN
     /\ buf_handler' = r.h
     /\ last_start' = buf_handler.pos
     /\ output' = [st |-> r.st,
                   recs |-> IF r.st = "Ok" THEN Append(output.recs, r.val)
                            ELSE output.recs]
     /\ pc' = IF r.st = "Ok" THEN "records" ELSE "record_failed"
  /\ UNCHANGED <<input, qn, len>>
  /\ UNCHANGED server_vars

\* seek(pos); record.write(&mut buf_handler) on a fresh BufHandler
RecordWrite ==
  /\ pc = "codec_start"
  /\ input.kind = "record"
  /\ \E r \in {DnsRecord_write(input.record,
                                BufHandler_seek(buf_handler, input.pos))} :
       /\ buf_handler' = r.h
       /\ output' = [st |-> r.st]
       /\ pc' = "record_written"
  /\ UNCHANGED <<input, qn, len, last_start>>
  /\ UNCHANGED server_vars

NextCodec == PacketWrite \/ PacketRead \/ DatagramRecv \/ RecordRead

SpecCodec == InitCodec /\ [][NextCodec]_vars

\* The runs of DnsRecord::write alone: one record written at one position
InitRecord ==
  /\ pc = "codec_start"
  /\ input \in WriteInputs
  /\ buf_handler = BufHandler_new
  /\ output = NoOutput
  /\ qn = NoQname
  /\ len = 0
  /\ last_start = 0
  /\ LoopTop

NextRecord == RecordWrite

SpecRecord == InitRecord /\ [][NextRecord]_vars

\* C1: a well-formed message (lower-case names of non-empty labels, z in
\* 0..7, counts equal to the section lengths) whose encoding fits in 512
\* bytes is decoded from its encoding as the same message.
C1_WellFormedName(n) ==
  /\ n # <<>>
  /\ \A i \in 1..Len(Split(n)) : Split(n)[i] # <<>> /\ Len(Split(n)[i]) <= 63
  /\ \A i \in 1..Len(n) : n[i] = Dot \/ (n[i] >= 97 /\ n[i] <= 122)

C1_WellFormedRecord(r) ==
  /\ C1_WellFormedName(r.domain)
  /\ r.kind \in {"NS", "CNAME", "MX"} => C1_WellFormedName(r.host)

C1_WellFormed(m) ==
  /\ m.header.z \in 0..7
  /\ m.header.questions = Len(m.questions)
  /\ m.header.answers = Len(m.answers)
  /\ m.header.nameservers = Len(m.nameservers)
  /\ m.header.additionals = Len(m.additionals)
  /\ \A i \in 1..Len(m.questions) : C1_WellFormedName(m.questions[i].name)
  /\ \A i \in 1..Len(m.answers) : C1_WellFormedRecord(m.answers[i])
  /\ \A i \in 1..Len(m.nameservers) : C1_WellFormedRecord(m.nameservers[i])
  /\ \A i \in 1..Len(m.additionals) : C1_WellFormedRecord(m.additionals[i])

C1_RoundTrip ==
  (pc = "decoded" /\ C1_WellFormed(input.packet)) =>
    /\ output.st = "Ok"
    /\ output.val = input.packet

\* C8: DnsRecord::read leaves the cursor where the record ends, also for a
\* record of an unknown type, and the A record after such a record is read
\* as it was written.
C8_UnknownIsSkipped ==
  (pc \in {"records", "record_failed"} /\ last_start > 0) =>
    /\ output.st = "Ok"
    /\ buf_handler.pos = input.ends[Len(output.recs)]
    /\ Len(output.recs) = 3 => output.recs[3] = input.second


\* ------------------------------------------------------- lookup and main

\* udp_socket.recv_from(&mut buf): the datagram overwrites the start of the
\* buffer and the bytes after it stay as they were
RecvInto(buf, d) ==
  [k \in 1..(IF Len(d) > Len(buf) THEN Len(d) ELSE Len(buf)) |->
     IF k <= Len(d) THEN d[k] ELSE buf[k]]

\* &buf_handler.buf[0..buf_handler.get_pos()]
Datagram(h) == Slice(h.buf, 0, BufHandler_get_pos(h))

\* lookup: the packet it sends, recursion desired and the one question
LookupQuery(qname, qtype) ==
  [DnsPacket_new EXCEPT !.header.recursion_desired = TRUE,
                        !.questions = <<[name |-> qname, qtype |-> qtype]>>]

\* main: the response packet before the answers are pushed; the first is a
\* response that does not take the request's id
ResponseFor_NoId(request) ==
  [DnsPacket_new EXCEPT !.header.recursion_desired = TRUE,
                        !.header.recursion_available = TRUE,
                        !.header.authoritative_answer = TRUE]

ResponseFor(request) ==
  [DnsPacket_new EXCEPT !.header.id = request.header.id,
                        !.header.recursion_desired = TRUE,
                        !.header.recursion_available = TRUE,
                        !.header.authoritative_answer = TRUE]

\* !packet.answers.is_empty(), main's test to leave its loop; the first is
\* a loop that stops at the first response whatever it holds
ResolutionDone_Always(p) == TRUE

ResolutionDone(p) == p.answers # <<>>

\* for additional in packet.additionals { if let A { addr } = additional
\* { current_address = addr } }
RECURSIVE NextAddress(_, _)
NextAddress(addr, additionals) ==
  IF additionals = <<>> THEN addr
  ELSE NextAddress(IF Head(additionals).kind = "A" THEN Head(additionals).addr
                   ELSE addr,
                   Tail(additionals))

\* for answer in packet.answers { response_packet.answers.push(answer) }
PushAnswers(response, p) ==
  [response EXCEPT !.answers = response.answers \o p.answers]

\* How a Result that is not Ok ends the process: unwrap() aborts on Err, an
\* index out of range aborts, a loop without end hangs
Aborted(st) == IF st = "Hang" THEN "hung" ELSE "crashed"

\* The end of main's loop body: the answers are pushed, the response is
\* written at the start of main's buffer and sent to src
Respond(h, response, p, to) ==
  \E w \in {DnsPacket_write(PushAnswers(response, p), BufHandler_seek(h, 0))} :
    /\ buf_handler' = w.h
    /\ response_packet' =
         [PushAnswers(response, p) EXCEPT
            !.header = PacketCounts(PushAnswers(response, p))]
    /\ IF w.st = "Ok"
       THEN /\ pc' = "sent"
            /\ sent' = [to |-> to, bytes |-> Datagram(w.h)]
            /\ sends' = sends + 1
            /\ fault' = "none"
       ELSE /\ pc' = Aborted(w.st)
            /\ sent' = sent
            /\ sends' = sends
            /\ fault' = "response_encode"

\* What the clients send
Clients == {<<10, 0, 0, 7>>, <<10, 0, 0, 8>>}

QuestionA == [name |-> NameA, qtype |-> "A"]
QuestionMX == [name |-> NameBC, qtype |-> "MX"]

RequestPackets ==
  { [DnsPacket_new EXCEPT !.header.id = 7],
    [DnsPacket_new EXCEPT !.header.id = 6699, !.header.recursion_desired = TRUE,
                          !.questions = <<QuestionA>>],
    [DnsPacket_new EXCEPT !.header.id = 6700,
                          !.questions = <<QuestionA, QuestionMX>>] }

\* a header that announces a question whose name is a pointer past the end
\* of the buffer
BadRequest == <<0, 9, 1, 0, 0, 1, 0, 0, 0, 0, 0, 0, 255, 255>>

\* a datagram cut off after its header, which announces one question
CutRequest == <<0, 8, 1, 0, 0, 1, 0, 0, 0, 0, 0, 0>>

ClientDatagrams ==
  { Datagram(DnsPacket_write(p, BufHandler_new).h) : p \in RequestPackets }
    \cup {BadRequest, CutRequest}

\* What the upstream servers answer with
GlueA == [kind |-> "A", domain |-> NameBC, addr |-> <<192, 168, 0, 255>>,
          ttl |-> 300]
GlueAAAA == [kind |-> "AAAA", domain |-> NameBC, ttl |-> 300,
             addr |-> <<8193, 3512, 0, 0, 0, 0, 0, 1>>]
GlueB == [kind |-> "A", domain |-> NameA, addr |-> <<10, 1, 1, 1>>, ttl |-> 300]
Delegation == [kind |-> "NS", domain |-> NameA, ttl |-> 300, host |-> NameBC]
AnswerA == [kind |-> "A", domain |-> NameA, addr |-> <<1, 2, 3, 4>>, ttl |-> 60]
AnswerCNAME == [kind |-> "CNAME", domain |-> NameA, ttl |-> 5, host |-> NameBC]

UpstreamBase ==
  [DnsPacket_new EXCEPT !.header.query = TRUE, !.questions = <<QuestionA>>]

ReferralPackets ==
  { [UpstreamBase EXCEPT !.nameservers = <<Delegation>>,
                         !.additionals = <<GlueB, GlueAAAA, GlueA>>],
    [UpstreamBase EXCEPT !.nameservers = <<Delegation>>,
                         !.additionals = <<GlueA, GlueB>>],
    [UpstreamBase EXCEPT !.nameservers = <<Delegation>>] }

AnswerPackets ==
  { [UpstreamBase EXCEPT !.answers = <<AnswerA>>],
    [UpstreamBase EXCEPT !.answers = <<AnswerCNAME, AnswerA>>,
                         !.additionals = <<GlueA>>] }

\* a response whose one answer is a TXT record
UnknownAnswer ==
  Datagram(WriteWireRecord(
    DnsHeader_write([DnsHeader_new EXCEPT !.query = TRUE, !.answers = 1],
                    BufHandler_new).h,
    NameA, 16, 60, <<3, 65, 66, 67>>).h)

\* a response cut off after its header, which announces 65535 answers
CutOff ==
  Datagram(DnsHeader_write([DnsHeader_new EXCEPT !.query = TRUE,
                                                 !.answers = 65535],
                           BufHandler_new).h)

ReferralDatagrams ==
  { Datagram(DnsPacket_write(p, BufHandler_new).h) : p \in ReferralPackets }

FinalDatagrams ==
  { Datagram(DnsPacket_write(p, BufHandler_new).h) : p \in AnswerPackets }
    \cup {UnknownAnswer, CutOff}

UpstreamDatagrams == ReferralDatagrams \cup FinalDatagrams

MaxChain == 3
QueryCap == MaxChain + 1

\* The upstream servers' responses to the successive queries of one request:
\* referrals, and then at most one response that ends the resolution (what
\* would follow it is never received)
Chains ==
  { c \in SeqsUpTo(UpstreamDatagrams, MaxChain) :
      \A i \in 1..(Len(c) - 1) : c[i] \in ReferralDatagrams }

\* packet.write(&mut buf_handler) in lookup, for the questions the clients
\* ask computed once
LookupWrite(q) ==
  DnsPacket_write(LookupQuery(q.name, q.qtype), BufHandler_new)

LookupWrites ==
  [q \in {QuestionA, QuestionMX, [name |-> <<>>, qtype |-> "UNKNOWN"]} |->
     LookupWrite(q)]

\* packet.read(&mut buf_handler) in lookup on a fresh buffer that holds the
\* datagram, for the datagrams the upstream servers send computed once
LookupRead(d) == DnsPacket_read(DnsPacket_new, [buf |-> d, pos |-> 0])

LookupReads == [d \in UpstreamDatagrams |-> LookupRead(d)]

\* The datagram the next recv_from of lookup returns, 0 if none ever comes
NextIndex ==
  IF served < Len(chain) THEN served + 1
  ELSE IF cyclic /\ chain # <<>> THEN 1 ELSE 0

InitServer ==
  /\ pc = "recv"
  /\ buf_handler = BufHandler_new
  /\ input = [kind |-> "server"]
  /\ output = NoOutput
  /\ qn = NoQname
  /\ len = 0
  /\ last_start = 0
  /\ LoopTop

\* main, from recv_from to the first call of lookup, or to the end of the
\* loop body when the request has no question
ClientRecvFrom(chains) ==
  /\ pc = "recv"
  /\ \E d \in ClientDatagrams :
       \E r \in {DnsPacket_from_buffer(
                   BufHandler_seek([buf |-> RecvInto(buf_handler.buf, d),
                                    pos |-> buf_handler.pos], 0))} :
       \E a \in Clients, c \in chains, cy \in BOOLEAN :
         /\ src' = a
         /\ datagram' = d
         /\ chain' = c
         /\ cyclic' = cy
         /\ IF r.st # "Ok"
            THEN /\ pc' = Aborted(r.st)
                 /\ fault' = "request_decode"
                 /\ buf_handler' = r.h
                 /\ UNCHANGED <<request_packet, response_packet, question,
                                current_address, sent, sends>>
            ELSE IF r.val.questions = <<>>
            THEN /\ request_packet' = r.val
                 /\ Respond(r.h, ResponseFor(r.val), DnsPacket_new, a)
                 /\ UNCHANGED <<question, current_address>>
            ELSE /\ question' = r.val.questions[Len(r.val.questions)]
                 /\ request_packet' =
                      [r.val EXCEPT !.questions =
                         SubSeq(r.val.questions, 1, Len(r.val.questions) - 1)]
                 /\ response_packet' = ResponseFor(r.val)
                 /\ current_address' = RootHint
                 /\ buf_handler' = r.h
                 /\ pc' = "lookup"
                 /\ UNCHANGED <<sent, sends, fault>>
  /\ UNCHANGED <<codec_vars, packet, served, queries, last_query, prev_query>>

ClientRecv == ClientRecvFrom(Chains)

\* lookup, up to its send_to
Lookup ==
  /\ pc = "lookup"
  /\ \E w \in {IF question \in DOMAIN LookupWrites THEN LookupWrites[question]
                ELSE LookupWrite(question)} :
       IF w.st = "Ok"
       THEN /\ last_query' = [to |-> current_address, bytes |-> Datagram(w.h)]
            /\ prev_query' = last_query
            /\ queries' = IF queries < QueryCap THEN queries + 1 ELSE queries
            /\ pc' = "await_upstream"
            /\ UNCHANGED fault
       ELSE /\ pc' = Aborted(w.st)
            /\ fault' = "query_encode"
            /\ UNCHANGED <<last_query, prev_query, queries>>
  /\ UNCHANGED <<buf_handler, codec_vars, src, request_packet, response_packet,
                 packet, question, current_address, chain, cyclic, served,
                 sent, datagram, sends>>

\* lookup from its recv_from, and main's loop body after lookup returns
UpstreamRecv ==
  /\ pc = "await_upstream"
  /\ NextIndex > 0
  /\ served' = NextIndex
  /\ \E r \in {IF chain[NextIndex] \in DOMAIN LookupReads
                THEN LookupReads[chain[NextIndex]]
                ELSE LookupRead(chain[NextIndex])} :
       IF r.st # "Ok"
       THEN /\ pc' = Aborted(r.st)
            /\ fault' = "upstream_decode"
            /\ UNCHANGED <<buf_handler, packet, response_packet,
                           current_address, sent, sends>>
       ELSE /\ packet' = r.val
            /\ IF ResolutionDone(r.val)
               THEN /\ Respond(buf_handler, response_packet, r.val, src)
                    /\ UNCHANGED current_address
               ELSE /\ current_address' =
                         NextAddress(current_address, r.val.additionals)
                    /\ pc' = "lookup"
                    /\ UNCHANGED <<buf_handler, response_packet, sent, sends,
                                   fault>>
  /\ UNCHANGED <<codec_vars, src, request_packet, question, chain, cyclic,
                 queries, last_query, prev_query, datagram>>

\* main's loop starts over: its locals are dropped, its buffer stays
LoopBack ==
  /\ pc = "sent"
  /\ pc' = "recv"
  /\ src' = NoAddress
  /\ request_packet' = DnsPacket_new
  /\ response_packet' = DnsPacket_new
  /\ packet' = DnsPacket_new
  /\ question' = DnsQuestion_new
  /\ current_address' = RootHint
  /\ chain' = <<>>
  /\ cyclic' = FALSE
  /\ served' = 0
  /\ queries' = 0
  /\ last_query' = NoDatagram
  /\ sent' = NoDatagram
  /\ fault' = "none"
  /\ datagram' = <<>>
  /\ prev_query' = NoDatagram
  /\ sends' = 0
  /\ UNCHANGED <<buf_handler, codec_vars>>

NextServer == ClientRecv \/ Lookup \/ UpstreamRecv \/ LoopBack

SpecServer == InitServer /\ [][NextServer]_vars

\* The server when the upstream servers only refer it to other servers, and
\* answer every query it sends as long as the chain holds (or repeats) a
\* response
ReferralChains ==
  { c \in Chains : \A i \in 1..Len(c) : c[i] \in ReferralDatagrams }

ClientRecvReferred == ClientRecvFrom(ReferralChains)

NextReferred == ClientRecvReferred \/ Lookup \/ UpstreamRecv \/ LoopBack

FairSpecReferred ==
  /\ InitServer
  /\ [][NextReferred]_vars
  /\ WF_vars(Lookup)
  /\ WF_vars(UpstreamRecv)
  /\ WF_vars(LoopBack)

\* What a client that receives the datagram decodes
Received(bytes) == DnsPacket_from_buffer([buf |-> bytes, pos |-> 0])

\* C5: when the upstream servers answer with N referrals and then a response
\* with answers, main's loop sends exactly N+1 queries and ends with that
\* response's answers.
RECURSIVE C5_Referrals(_)
C5_Referrals(c) ==
  IF c = <<>> \/ Head(c) \notin ReferralDatagrams THEN 0
  ELSE 1 + C5_Referrals(Tail(c))

C5_Final(c) == LookupReads[c[C5_Referrals(c) + 1]]

C5_Given(c) ==
  /\ C5_Referrals(c) < Len(c)
  /\ C5_Final(c).st = "Ok"
  /\ C5_Final(c).val.answers # <<>>

C5_ExactlyNPlusOneQueries ==
  C5_Given(chain) =>
    /\ queries <= C5_Referrals(chain) + 1
    /\ (pc = "sent" /\ queries > 0) =>
         /\ queries = C5_Referrals(chain) + 1
         /\ packet = C5_Final(chain).val

C5_Witness ==
  /\ pc = "sent"
  /\ C5_Given(chain)
  /\ C5_Referrals(chain) = 2
  /\ queries = 3
  /\ packet.answers = <<AnswerCNAME, AnswerA>>

\* C6: when the upstream servers answer every query with a referral, over
\* and over, the resolution of the request ends all the same.
C6_OnlyReferrals(c) ==
  /\ c # <<>>
  /\ \A i \in 1..Len(c) : c[i] \in ReferralDatagrams

C6_ResolutionEnds ==
  (pc = "lookup" /\ cyclic /\ C6_OnlyReferrals(chain))
    ~> (pc \notin {"lookup", "await_upstream"})

\* C9: the response to a resolved request goes to the request's sender with
\* the request's id, with RD, RA and AA set, and with the answers of the last
\* lookup as its answer section.
C9_ResponseCarriesAnswers ==
  (pc = "sent" /\ queries > 0) =>
    /\ sent.to = src
    /\ Received(sent.bytes).st = "Ok"
    /\ Received(sent.bytes).val.header.id = request_packet.header.id
    /\ Received(sent.bytes).val.header.recursion_desired
    /\ Received(sent.bytes).val.header.recursion_available
    /\ Received(sent.bytes).val.header.authoritative_answer
    /\ Received(sent.bytes).val.answers = packet.answers

\* C10: when a lookup fails, the client is sent a SERVFAIL response and the
\* process goes on to its next recv_from.
C10_FailureIsAnsweredWithServfail ==
  fault \in {"query_encode", "upstream_decode"} =>
    /\ pc = "sent"
    /\ sent.to = src
    /\ Received(sent.bytes).st = "Ok"
    /\ Received(sent.bytes).val.header.response_code = "SERVFAIL"


\* C12: what main decodes from a datagram, and whether it can decode it, is
\* what a buffer that has held nothing before would give.
C12_Popped == pc \in {"lookup", "await_upstream"} \/ queries > 0

C12_Request ==
  IF C12_Popped
  THEN [request_packet EXCEPT !.questions = request_packet.questions \o <<question>>]
  ELSE request_packet

C12_NothingPersists ==
  /\ (pc \in {"lookup", "await_upstream", "sent"}) =>
       /\ Received(datagram).st = "Ok"
       /\ Received(datagram).val = C12_Request
  /\ (fault = "request_decode") => Received(datagram).st # "Ok"

\* C13: after a referral without an A record in its additional section no
\* further query is sent (the resolution is over).
C13_HasA(records) == \E i \in 1..Len(records) : records[i].kind = "A"

C13_NoGlueStops ==
  (served > 0 /\ packet.answers = <<>> /\ ~C13_HasA(packet.additionals))
    => pc \notin {"lookup", "await_upstream"}

\* C14: the address taken from a referral is that of an A record whose owner
\* is the host of an NS record of the referral's authority section.
C14_Glue(p) ==
  { p.additionals[i].addr : i \in
      { j \in 1..Len(p.additionals) :
          /\ p.additionals[j].kind = "A"
          /\ \E k \in 1..Len(p.nameservers) :
               /\ p.nameservers[k].kind = "NS"
               /\ p.nameservers[k].host = p.additionals[j].domain } }

C14_NextIsGlue ==
  (pc = "lookup" /\ served > 0 /\ C13_HasA(packet.additionals))
    => current_address \in C14_Glue(packet)

\* C15: the question main resolves is the first of the request's questions.
C15_FirstQuestion ==
  (pc \in {"lookup", "await_upstream"})
    => question = Head(request_packet.questions \o <<question>>)

\* C16: an upstream query holds the one question being resolved, and its
\* transaction id differs from that of the query sent before it.
C16_FreshId ==
  (pc = "await_upstream") =>
    /\ Received(last_query.bytes).st = "Ok"
    /\ Received(last_query.bytes).val.questions = <<question>>
    /\ queries > 1 =>
         Received(last_query.bytes).val.header.id
           # Received(prev_query.bytes).val.header.id

\* C20: a request without a question is answered at once: no upstream query,
\* one response, to the sender, with the request's id and no answer.
C20_Requests == [d \in ClientDatagrams |-> Received(d)]

C20_Empty ==
  /\ datagram \in ClientDatagrams
  /\ C20_Requests[datagram].st = "Ok"
  /\ C20_Requests[datagram].val.questions = <<>>

C20_EmptyRequestAnswered ==
  (pc \notin {"recv", "crashed", "hung"} /\ C20_Empty) =>
    /\ pc = "sent"
    /\ queries = 0
    /\ last_query = NoDatagram
    /\ sends = 1
    /\ sent.to = src
    /\ Received(sent.bytes).st = "Ok"
    /\ Received(sent.bytes).val.header.id
         = C20_Requests[datagram].val.header.id
    /\ Received(sent.bytes).val.header.answers = 0
    /\ Received(sent.bytes).val.answers = <<>>
    /\ Len(sent.bytes) = 12

C20_Witness ==
  /\ pc = "sent"
  /\ C20_Empty
  /\ C20_Requests[datagram].val.header.id = 7
  /\ buf_handler.buf # sent.bytes
  /\ sends = 1

\* C11: in the bytes DnsPacket::write has written, each count of the header
\* is the number of entries of its section that were written.
C11_Written(records) ==
  Cardinality({ i \in 1..Len(records) :
                  DnsRecord_write(records[i], BufHandler_new).h.pos > 0 })

C11_Header == DnsHeader_read(DnsHeader_new, BufHandler_seek(buf_handler, 0)).val

C11_CountsAreEntriesWritten ==
  (pc = "encoded" /\ output.st = "Ok") =>
    /\ C11_Header.questions = Len(input.packet.questions)
    /\ C11_Header.answers = C11_Written(input.packet.answers)
    /\ C11_Header.nameservers = C11_Written(input.packet.nameservers)
    /\ C11_Header.additionals = C11_Written(input.packet.additionals)

\* C17: the data length DnsRecord::write puts in a record is the number of
\* bytes it writes after it.
C17_LengthAt ==
  BufHandler_write_qname(BufHandler_seek(BufHandler_new, input.pos),
                         input.record.domain).h.pos + 8

C17_LengthIsPayload ==
  (pc = "record_written" /\ output.st = "Ok") =>
    Get(buf_handler.buf, C17_LengthAt) * 256
      + Get(buf_handler.buf, C17_LengthAt + 1)
        = buf_handler.pos - (C17_LengthAt + 2)

C17_Witness ==
  /\ pc = "record_written"
  /\ output.st = "Ok"
  /\ input.record.kind = "MX"
  /\ input.record.host = <<97, Dot>>
  /\ input.record.domain = NameRoot
  /\ buf_handler.pos - (C17_LengthAt + 2) = 6

\* C18: read_qname leaves the cursor after the name's terminating zero when
\* it met no pointer, and after the first pointer it met otherwise.
RECURSIVE C18_Resume(_, _)
C18_Resume(buf, o) ==
  IF Get(buf, o) = 0 THEN o + 1
  ELSE IF Get(buf, o) >= 192 THEN o + 2
  ELSE C18_Resume(buf, o + 1 + Get(buf, o))

C18_CursorAfterName ==
  (pc = "cursor_done" /\ input.op = "read_qname" /\ output.st = "Ok") =>
    buf_handler.pos = C18_Resume(input.buf, input.pos)

\* two pointers followed, the second before the first
C18_Witness ==
  /\ pc = "cursor_done"
  /\ input.op = "read_qname"
  /\ output.st = "Ok"
  /\ input.buf = <<0, 192, 0, 192, 1>>
  /\ input.pos = 3
  /\ buf_handler.pos = 5

\* C19: when write_qname returns Ok, every label of the name it was given has
\* at most 63 bytes, so that no length byte above 63 is written.
C19_LabelsAtMost63 ==
  (pc = "cursor_done" /\ input.op = "write_qname" /\ output.st = "Ok") =>
    \A i \in 1..Len(Split(input.arg)) : Len(Split(input.arg)[i]) <= 63

====
